---- MODULE Spec2Model ----
(***************************************************************************)
(* A model of lambda_zip: the recursive installer (install_to_dir), the    *)
(* archive builder (create_zip_file), the layer fingerprint                *)
(* (NewAwsLambdaLayerZip.__init__), the layer version scan                 *)
(* (AwsLambdaLayer), the command-line run (cli_entry_point) and the        *)
(* construction of its two artifacts (NewAwsLambdaZip.__init__ and         *)
(* NewAwsLambdaLayerZip.__init__).                                         *)
(***************************************************************************)
EXTENDS Integers, Sequences, FiniteSets, TLC

VARIABLES
    \* ---- install_to_dir ----
    manifest,                       \* project name -> contents of its pyproject.toml
    stack,                          \* the install_to_dir call stack, innermost frame last
    local_deps_already_installed,   \* the module-level set of __init__.py:33
    zip_omit,                       \* the module-level pattern set of __init__.py:36
    pip_log,                        \* invoke_pip_install calls so far, in order
    install_result,                 \* "idle", "running", "returned" or the exception raised
    install_error_dir,              \* the local_dep_dir named in the ValueError of line 477
    dst_dir,                        \* the dst_dir argument, handed on unchanged by line 489
    \* ---- the layer fingerprint ----
    zf,                             \* the archive: its members in the order they were written
    sha256_b64digest,               \* self.sha256_b64digest, NoDigest before it is computed
    zf_prev,                        \* the archive of the build before this one
    sha256_prev,                    \* and its digest
    zf_change,                      \* how this build's archive differs from the one before
    \* ---- create_zip_file ----
    tmp_tree,                       \* the staging directory: its files and directories
    zip_omit_exact_names,           \* argument: exact member names to leave out
    zip_omit_patterns,              \* argument: regular expressions to leave out
    zip_pc,                         \* "idle", "start", "walk", "returned" or the exception
    walk_todo,                      \* files os.walk has not handed over yet
    zip_namelist,                   \* zf.namelist(): the members written, in order
    omitted_file_count,
    zipped_file_count,
    \* ---- cli_entry_point ----
    args,                           \* which options the command line gave
    run_pc,                         \* the statement of cli_entry_point that runs next
    run_error,                      \* "none", or the exception that ended the run at run_pc
    registry,                       \* the layer's versions, in the order the pages list them
    layer_sha,                      \* layer_zip.sha256_b64digest
    available_versions,             \* AwsLambdaLayer.available_versions, in insertion order
    duplicate,                      \* the result of get_highest_version_matching_sha256b64
    use_layer_version,
    api_log,                        \* the remote calls made so far, in order
    lambda_function,                \* the deployed function: its code and its layers
    layer_metadata,                 \* layer_zip.metadata
    encoded_metadata,                    \* the Description publish() sent
    staging_dir,                    \* args['tmp_dir'] on disk: "none", "exists" or "removed"
    open_archives,                  \* the ZipFile objects opened and not closed
    exited,                         \* the interpreter has shut down
    \* ---- the two artifacts of one run ----
    build_args,                     \* --layer-name given or not, and the --omit patterns
    build_pc,                       \* where the run is between lines 617 and 649
    lambda_zip_namelist,            \* lambda_zip.zip_namelist
    layer_zip_namelist              \* layer_zip.zip_namelist

installVars == <<manifest, stack, local_deps_already_installed, zip_omit, pip_log,
                 install_result, install_error_dir, dst_dir>>

fpVars == <<zf, sha256_b64digest, zf_prev, sha256_prev, zf_change>>

zipVars == <<tmp_tree, zip_omit_exact_names, zip_omit_patterns, zip_pc, walk_todo,
             zip_namelist, omitted_file_count, zipped_file_count>>

runVars == <<args, run_pc, run_error, registry, layer_sha, available_versions, duplicate,
             use_layer_version, api_log, lambda_function, layer_metadata, encoded_metadata,
             staging_dir, open_archives, exited>>

buildVars == <<build_args, build_pc, lambda_zip_namelist, layer_zip_namelist>>

vars == <<installVars, fpVars, zipVars, runVars, buildVars>>

(***************************************************************************)
(* Bounds                                                                  *)
(***************************************************************************)
\* Depth at which the interpreter gives up on a recursion (RecursionError);
\* the real limit is about 1000 frames, the model scales it down.
RecursionLimit == 4

\* Most members an archive of the fingerprint model holds
MaxMembers == 3

\* Most versions the layer has before the run
MaxVersions == 2

(***************************************************************************)
(* Paths.  A pathlib.Path is a sequence of components; a str is a          *)
(* different Python type, so the two never compare equal.                  *)
(***************************************************************************)
Projects == {"A", "B", "C"}

\* every project is a directory below one workspace directory
WorkDir == <<"w">>

\* args['src_dir'] of the top-level call; Path.absolute() leaves it as it is
TopDir == WorkDir \o <<"A">>

Path(parts) == [type |-> "Path", parts |-> parts]

\* str(path): the same text, as a str object
Str(path) == [type |-> "str", parts |-> path.parts]

\* Path(local_dep_dir, sub_dep).absolute(): joins, never collapses '..'
PathJoin(dir, rel) == Path(dir.parts \o rel)

\* what the file system makes of a path: '..' steps to the parent
RECURSIVE ResolveParts(_, _)
ResolveParts(parts, acc) ==
    IF parts = <<>> THEN acc
    ELSE IF Head(parts) = ".."
         THEN ResolveParts(Tail(parts),
                           IF acc = <<>> THEN acc ELSE SubSeq(acc, 1, Len(acc) - 1))
         ELSE ResolveParts(Tail(parts), Append(acc, Head(parts)))

Resolve(parts) == ResolveParts(parts, <<>>)

\* the project whose directory a path names
ProjectAt(parts) == Resolve(parts)[Len(Resolve(parts))]

\* a local_dependency entry of a manifest: a sibling directory
SiblingRef(p) == <<"..", p>>

(***************************************************************************)
(* Manifests (pyproject.toml)                                              *)
(***************************************************************************)
\* the zip_omit pattern the manifest of project p declares: '^<p>_tests'
ManifestOmit(p) == [anchored |-> TRUE, lit |-> <<p, "_", "t">>, toEnd |-> FALSE, valid |-> TRUE]

Manifests ==
    {[status |-> "missing", local_dependency |-> {}]}
    \cup {[status |-> "no_section", local_dependency |-> {}]}
    \cup {[status |-> "ok", local_dependency |-> d] : d \in SUBSET Projects}

(***************************************************************************)
(* install_to_dir                                                          *)
(***************************************************************************)
\* the directories pip installs into: <tmp>/lambda and <tmp>/layer/python
LambdaDir == "lambda"

LayerPythonDir == "layer/python"

StagingDirs == {LambdaDir, LayerPythonDir}

\* dst_dir while no call is running
NoDir == "none"

\* deps_builtin_to_runtime, scaled down to one of its ten names
BuiltinDeps == {<<"six">>}

\* '^' + name, as a compiled pattern matches it
Anchored(lit) == [anchored |-> TRUE, lit |-> lit, toEnd |-> FALSE, valid |-> TRUE]

\* the module-level zip_omit as the import leaves it
DefaultZipOmit == {Anchored(dep) : dep \in BuiltinDeps}

Frame(dir, deps) ==
    [local_dep_dir |-> dir, install_dependencies |-> deps, pc |-> "enter", sub_deps_unresolved |-> {}]

Top == stack[Len(stack)]

SetTop(f) == [stack EXCEPT ![Len(stack)] = f]

\* lines 472-477: open, read and toml.loads succeed
ManifestReadable_always(m) == TRUE

ManifestReadable(m) == m.status # "missing"

SubDepsUnresolved_reversed(dir, m) ==
    local_deps_already_installed \ {PathJoin(dir, SiblingRef(p)) : p \in m.local_dependency}

\* lines 482-486: the declared siblings as Path objects, less the installed set
SubDepsUnresolved(dir, m) ==
    {PathJoin(dir, SiblingRef(p)) : p \in m.local_dependency} \ local_deps_already_installed

InstallInit ==
    /\ manifest \in [Projects -> Manifests]
    /\ stack = <<>>
    /\ local_deps_already_installed = {}
    /\ zip_omit = DefaultZipOmit
    /\ pip_log = <<>>
    /\ install_result = "idle"
    /\ install_error_dir = <<>>
    /\ dst_dir = NoDir

\* the top-level call, from NewAwsLambdaZip.__init__ or NewAwsLambdaLayerZip.__init__
InstallCall ==
    /\ install_result = "idle"
    /\ \E deps \in BOOLEAN : stack' = <<Frame(Path(TopDir), deps)>>
    /\ dst_dir' \in StagingDirs
    /\ install_result' = "running"
    /\ UNCHANGED <<manifest, local_deps_already_installed, zip_omit, pip_log, install_error_dir>>
    /\ UNCHANGED <<fpVars, zipVars, runVars, buildVars>>

\* lines 471-477: the manifest cannot be opened or parsed
ManifestError ==
    /\ install_result = "running"
    /\ Top.pc = "enter"
    /\ ~ManifestReadable(manifest[ProjectAt(Top.local_dep_dir.parts)])
    /\ install_result' = "ValueError"
    /\ install_error_dir' = Top.local_dep_dir.parts
    /\ stack' = <<>>
    /\ UNCHANGED <<manifest, dst_dir, local_deps_already_installed, zip_omit, pip_log>>
    /\ UNCHANGED <<fpVars, zipVars, runVars, buildVars>>

\* lines 471-486: read the manifest, merge zip_omit, work out the siblings to visit
ReadManifest ==
    /\ install_result = "running"
    /\ Top.pc = "enter"
    /\ LET m == manifest[ProjectAt(Top.local_dep_dir.parts)]
           todo == IF m.status = "ok" /\ Top.install_dependencies
                   THEN SubDepsUnresolved(Top.local_dep_dir, m)
                   ELSE {}
       IN /\ ManifestReadable(m)
          /\ zip_omit' = IF m.status = "ok"
                         THEN zip_omit \cup {ManifestOmit(ProjectAt(Top.local_dep_dir.parts))}
                         ELSE zip_omit
          /\ stack' = SetTop([Top EXCEPT !.pc = IF todo = {} THEN "pip" ELSE "loop",
                                         !.sub_deps_unresolved = todo])
    /\ UNCHANGED <<manifest, dst_dir, local_deps_already_installed, pip_log, install_result,
                   install_error_dir>>
    /\ UNCHANGED <<fpVars, zipVars, runVars, buildVars>>

\* the recursive call, had it passed install_dependencies=False
RecursiveCall_no_deps(sub_dep) == Frame(sub_dep, FALSE)

\* line 489: install_to_dir(dst_dir=dst_dir, local_dep_dir=sub_dep), with
\* install_dependencies left at its default of line 458, True
RecursiveCall(sub_dep) == Frame(sub_dep, TRUE)

\* lines 487-489: the recursive call for one sibling, install_dependencies defaulted
Recurse ==
    /\ install_result = "running"
    /\ Top.pc = "loop"
    /\ Len(stack) < RecursionLimit
    /\ \E sub_dep \in Top.sub_deps_unresolved :
          stack' = Append(SetTop([Top EXCEPT !.pc = "wait",
                                             !.sub_deps_unresolved = @ \ {sub_dep}]),
                          RecursiveCall(sub_dep))
    /\ UNCHANGED <<manifest, dst_dir, local_deps_already_installed, zip_omit, pip_log, install_result,
                   install_error_dir>>
    /\ UNCHANGED <<fpVars, zipVars, runVars, buildVars>>

\* the interpreter's recursion limit is reached at line 489
RecursionOverflow ==
    /\ install_result = "running"
    /\ Top.pc = "loop"
    /\ Len(stack) >= RecursionLimit
    /\ install_result' = "RecursionError"
    /\ stack' = <<>>
    /\ UNCHANGED <<manifest, dst_dir, local_deps_already_installed, zip_omit, pip_log, install_error_dir>>
    /\ UNCHANGED <<fpVars, zipVars, runVars, buildVars>>

\* what the installed set holds once the call for dir has returned to its caller:
\* line 497 in the callee, then line 490 in the caller (both add str(...))
InstalledAfter(dir) == local_deps_already_installed \cup {Str(dir)}

\* lines 492-496: invoke_pip_install(target_dir=dst_dir, packages=[str(local_dep_dir)],
\* install_dependencies=install_dependencies), and whether pip exited with 0
PipCall(ok) ==
    [target_dir |-> dst_dir, packages |-> Str(Top.local_dep_dir),
     install_dependencies |-> Top.install_dependencies, ok |-> ok]

\* lines 492-497, and the return to line 490 of the caller
PipInstall ==
    /\ install_result = "running"
    /\ Top.pc = "pip"
    /\ pip_log' = Append(pip_log, PipCall(TRUE))
    /\ local_deps_already_installed' = InstalledAfter(Top.local_dep_dir)
    /\ IF Len(stack) = 1
       THEN /\ stack' = <<>>
            /\ install_result' = "returned"
       ELSE /\ LET caller == stack[Len(stack) - 1]
                   rest == SubSeq(stack, 1, Len(stack) - 1)
               IN stack' = [rest EXCEPT ![Len(rest)] =
                              [caller EXCEPT !.pc = IF caller.sub_deps_unresolved = {}
                                                    THEN "pip" ELSE "loop"]]
            /\ UNCHANGED install_result
    /\ UNCHANGED <<manifest, dst_dir, zip_omit, install_error_dir>>
    /\ UNCHANGED <<fpVars, zipVars, runVars, buildVars>>

\* line 529: pip exits non-zero, subprocess.run(check=True) raises
PipFails ==
    /\ install_result = "running"
    /\ Top.pc = "pip"
    /\ pip_log' = Append(pip_log, PipCall(FALSE))
    /\ install_result' = "CalledProcessError"
    /\ stack' = <<>>
    /\ UNCHANGED <<manifest, dst_dir, local_deps_already_installed, zip_omit, install_error_dir>>
    /\ UNCHANGED <<fpVars, zipVars, runVars, buildVars>>

(***************************************************************************)
(* Text.  A str is a sequence of one-character strings; bytes(s, 'utf-8')  *)
(* is the sequence of their code points (all of them ASCII).               *)
(***************************************************************************)
Code ==
    ("." :> 46) @@ ("/" :> 47) @@ ("_" :> 95) @@ ("a" :> 97) @@ ("b" :> 98) @@ ("c" :> 99)
    @@ ("d" :> 100) @@ ("e" :> 101) @@ ("i" :> 105) @@ ("l" :> 108) @@ ("m" :> 109)
    @@ ("p" :> 112) @@ ("t" :> 116) @@ ("y" :> 121) @@ ("z" :> 122)

Utf8(text) == [i \in 1..Len(text) |-> Code[text[i]]]

\* text.endswith(suffix)
EndsWith(text, suffix) ==
    /\ Len(text) >= Len(suffix)
    /\ SubSeq(text, Len(text) - Len(suffix) + 1, Len(text)) = suffix

\* a < b for two str, as sorted() compares them: by code point, a prefix first
RECURSIVE StrLess(_, _)
StrLess(a, b) ==
    IF b = <<>> THEN FALSE
    ELSE IF a = <<>> THEN TRUE
    ELSE IF Code[Head(a)] # Code[Head(b)] THEN Code[Head(a)] < Code[Head(b)]
    ELSE StrLess(Tail(a), Tail(b))

RECURSIVE InsertSorted(_, _)
InsertSorted(x, sorted) ==
    IF sorted = <<>> THEN <<x>>
    ELSE IF StrLess(Head(sorted), x) THEN <<Head(sorted)>> \o InsertSorted(x, Tail(sorted))
    ELSE <<x>> \o sorted

Sorted_unsorted(names) == names

\* sorted(names)
RECURSIVE Sorted(_)
Sorted(names) ==
    IF names = <<>> THEN <<>> ELSE InsertSorted(Head(names), Sorted(Tail(names)))

PycSuffix == <<".", "p", "y", "c">>

MetadataName ==
    <<"l", "a", "m", "b", "d", "a", "_", "z", "i", "p", "_",
      "m", "e", "t", "a", "d", "a", "t", "a", ".", "y", "m", "l">>

(***************************************************************************)
(* The layer fingerprint, NewAwsLambdaLayerZip.__init__ lines 145-166      *)
(***************************************************************************)
\* zf.namelist()
NameList(archive) == [i \in 1..Len(archive) |-> archive[i].filename]

\* zf.open(name).read(): the bytes of the member of that name
ReadMember(archive, name) ==
    LET i == CHOOSE k \in 1..Len(archive) :
                /\ archive[k].filename = name
                /\ \A j \in (k + 1)..Len(archive) : archive[j].filename # name
    IN archive[i].data

SkippedByHash_pyc_only(name) == EndsWith(name, PycSuffix)

\* line 155: the members the hash passes over
SkippedByHash(name) == EndsWith(name, PycSuffix) \/ name = MetadataName

\* lines 154-163: everything hasher.update() is fed, in order
RECURSIVE HashInput(_, _)
HashInput(archive, names) ==
    IF names = <<>> THEN <<>>
    ELSE IF SkippedByHash(Head(names)) THEN HashInput(archive, Tail(names))
    ELSE Utf8(Head(names)) \o ReadMember(archive, Head(names))
         \o HashInput(archive, Tail(names))

\* hashlib.sha256 over a byte stream: equal digests for equal streams, and (no
\* collision being known) different digests for different streams
Sha256(bytes) == [sha256 |-> bytes]

\* base64.b64encode(digest).decode('utf-8'): one text per digest
B64(digest) == [b64 |-> digest]

\* lines 153-164
Fingerprint(archive) == B64(Sha256(HashInput(archive, Sorted(NameList(archive)))))

\* the value before the digest is computed: no byte stream hashes to it
NoDigest == [b64 |-> [sha256 |-> <<-1>>]]

\* ---- the archives of the fingerprint model ----
FpNames == { <<"a">>, <<"a", "b">>, <<"b", ".", "p", "y", "c">>, MetadataName }

\* contents 'c' and 'bc'
FpData == { <<99>>, <<98, 99>> }

FpTimes == {1, 2}

FpMembers == [filename : FpNames, data : FpData, date_time : FpTimes]

DistinctNames(archive) ==
    \A i, j \in 1..Len(archive) : archive[i].filename = archive[j].filename => i = j

Archives ==
    {a \in UNION {[1..n -> FpMembers] : n \in 0..MaxMembers} : DistinctNames(a)}

\* the archive without its k-th member
RemoveAt(archive, k) == SubSeq(archive, 1, k - 1) \o SubSeq(archive, k + 1, Len(archive))

FpIdle ==
    /\ zf = <<>>
    /\ sha256_b64digest = NoDigest
    /\ zf_prev = <<>>
    /\ sha256_prev = NoDigest
    /\ zf_change = "idle"

FpInit ==
    /\ zf \in Archives
    /\ sha256_b64digest = NoDigest
    /\ zf_prev = <<>>
    /\ sha256_prev = NoDigest
    /\ zf_change = "first"

\* lines 153-166: the digest of the archive just written
HashArchive ==
    /\ zf_change # "idle"
    /\ sha256_b64digest = NoDigest
    /\ sha256_b64digest' = Fingerprint(zf)
    /\ UNCHANGED <<zf, zf_prev, sha256_prev, zf_change>>
    /\ UNCHANGED <<installVars, zipVars, runVars, buildVars>>

\* the next build: what becomes of the build before it
NextBuild(archive, change) ==
    /\ sha256_b64digest # NoDigest
    /\ zf_prev' = zf
    /\ sha256_prev' = sha256_b64digest
    /\ zf' = archive
    /\ zf_change' = change
    /\ sha256_b64digest' = NoDigest
    /\ UNCHANGED <<installVars, zipVars, runVars, buildVars>>

\* os.walk hands the same files over in another order
RebuildReordered ==
    \E i, j \in 1..Len(zf) :
        /\ i < j
        /\ NextBuild([zf EXCEPT ![i] = zf[j], ![j] = zf[i]], "reordered")

\* the same files, written at another time
RebuildTouched ==
    \E i \in 1..Len(zf), t \in FpTimes :
        /\ t # zf[i].date_time
        /\ NextBuild([zf EXCEPT ![i].date_time = t], "touched")

\* a member the hash passes over appears, disappears or changes
RebuildSkippedChanged ==
    \/ \E m \in FpMembers :
          /\ SkippedByHash(m.filename)
          /\ Len(zf) < MaxMembers
          /\ \A i \in 1..Len(zf) : zf[i].filename # m.filename
          /\ NextBuild(Append(zf, m), "skipped_changed")
    \/ \E i \in 1..Len(zf) :
          /\ SkippedByHash(zf[i].filename)
          /\ NextBuild(RemoveAt(zf, i), "skipped_changed")
    \/ \E i \in 1..Len(zf), d \in FpData :
          /\ SkippedByHash(zf[i].filename)
          /\ d # zf[i].data
          /\ NextBuild([zf EXCEPT ![i].data = d], "skipped_changed")

\* a member the hash reads appears, disappears or changes
RebuildHashedChanged ==
    \/ \E m \in FpMembers :
          /\ ~SkippedByHash(m.filename)
          /\ Len(zf) < MaxMembers
          /\ \A i \in 1..Len(zf) : zf[i].filename # m.filename
          /\ NextBuild(Append(zf, m), "hashed_changed")
    \/ \E i \in 1..Len(zf) :
          /\ ~SkippedByHash(zf[i].filename)
          /\ NextBuild(RemoveAt(zf, i), "hashed_changed")
    \/ \E i \in 1..Len(zf), d \in FpData :
          /\ ~SkippedByHash(zf[i].filename)
          /\ d # zf[i].data
          /\ NextBuild([zf EXCEPT ![i].data = d], "hashed_changed")

\* a file is moved: the member has another name, and perhaps other content
RebuildRenamed ==
    \E i \in 1..Len(zf), name \in FpNames, data \in FpData :
       /\ \A j \in 1..Len(zf) : zf[j].filename # name
       /\ NextBuild([zf EXCEPT ![i].filename = name, ![i].data = data], "renamed")

FpNext ==
    \/ HashArchive
    \/ RebuildReordered
    \/ RebuildTouched
    \/ RebuildSkippedChanged
    \/ RebuildHashedChanged
    \/ RebuildRenamed

InstallIdle ==
    /\ manifest = [p \in Projects |-> [status |-> "no_section", local_dependency |-> {}]]
    /\ stack = <<>>
    /\ local_deps_already_installed = {}
    /\ zip_omit = DefaultZipOmit
    /\ pip_log = <<>>
    /\ install_result = "idle"
    /\ install_error_dir = <<>>
    /\ dst_dir = NoDir

\* the (member name, member content) pairs of an archive
Pairs(archive) == {<<archive[i].filename, archive[i].data>> : i \in 1..Len(archive)}

BothHashed == sha256_b64digest # NoDigest /\ sha256_prev # NoDigest

\* C4: the fingerprint depends only on the set of (member name, content)
\* pairs: two archives with the same names and contents, in any member order
\* and with any timestamps, have the same digest.
C4_OrderAndTimeIndependent ==
    (BothHashed /\ Pairs(zf) = Pairs(zf_prev)) => sha256_b64digest = sha256_prev

C4_Witness ==
    /\ BothHashed
    /\ zf_change = "reordered"
    /\ zf # zf_prev
    /\ \E i \in 1..Len(zf) : ~SkippedByHash(zf[i].filename) /\ zf_prev[i] # zf[i]

\* a member whose name ends with '.pyc' or is 'lambda_zip_metadata.yml'
IsVolatileName(name) ==
    \/ name = MetadataName
    \/ /\ Len(name) >= 4
       /\ name[Len(name) - 3] = "." /\ name[Len(name) - 2] = "p"
       /\ name[Len(name) - 1] = "y" /\ name[Len(name)] = "c"

StablePairs(archive) == {pr \in Pairs(archive) : ~IsVolatileName(pr[1])}

\* C5: a '.pyc' member or 'lambda_zip_metadata.yml' contributes nothing to
\* the fingerprint (adding, removing or changing one leaves it as it was),
\* and every other member contributes its name and its content (adding,
\* removing or changing one changes the fingerprint).
C5_VolatileMembersSkipped ==
    BothHashed =>
       /\ StablePairs(zf) = StablePairs(zf_prev) => sha256_b64digest = sha256_prev
       /\ zf_change = "hashed_changed" => sha256_b64digest # sha256_prev
       /\ zf_change = "skipped_changed" => StablePairs(zf) = StablePairs(zf_prev)

C5_Witness ==
    /\ BothHashed
    /\ zf_change = "skipped_changed"
    /\ Pairs(zf) # Pairs(zf_prev)
    /\ StablePairs(zf) # {}

\* C20: the bytes fed to the hash determine the filtered member set: two
\* archives whose sets of (member name, content) pairs differ, '.pyc'
\* members and 'lambda_zip_metadata.yml' left aside, never feed the same
\* byte sequence (name 'ab' with content 'c' and name 'a' with content 'bc'
\* are told apart).
C20_HashInputDeterminesMembers ==
    (BothHashed /\ StablePairs(zf) # StablePairs(zf_prev)) => sha256_b64digest # sha256_prev

(***************************************************************************)
(* Exclusion patterns.  The patterns of the model are a literal text with  *)
(* an optional '^' in front and an optional '$' behind; one that does not  *)
(* compile has valid = FALSE.                                              *)
(***************************************************************************)
Pattern(anchored, lit, toEnd) ==
    [anchored |-> anchored, lit |-> lit, toEnd |-> toEnd, valid |-> TRUE]

\* the pattern matches the text starting at position i (1-based)
MatchAt(pattern, text, i) ==
    /\ i + Len(pattern.lit) - 1 <= Len(text)
    /\ SubSeq(text, i, i + Len(pattern.lit) - 1) = pattern.lit
    /\ pattern.toEnd => i + Len(pattern.lit) - 1 = Len(text)

RECURSIVE SearchFrom(_, _, _)
SearchFrom(pattern, text, i) ==
    IF i > Len(text) + 1 THEN FALSE
    ELSE IF MatchAt(pattern, text, i) THEN TRUE
    ELSE IF pattern.anchored THEN FALSE
    ELSE SearchFrom(pattern, text, i + 1)

\* regex.fullmatch(text) in place of regex.search(text)
re_search_fullmatch(pattern, text) ==
    MatchAt(pattern, text, 1) /\ Len(pattern.lit) = Len(text)

\* line 395: regex.search(text), the first position the pattern matches at
re_search(pattern, text) == SearchFrom(pattern, text, 1)

(***************************************************************************)
(* create_zip_file, lines 352-404                                          *)
(***************************************************************************)
FileA  == <<"a">>
FileAB == <<"a", "b">>
FileBA == <<"b", "/", "a">>
DirB   == <<"b">>
DirC   == <<"c">>

TreeEntries ==
    {[path |-> f, kind |-> "file"] : f \in {FileA, FileAB, FileBA}}
    \cup {[path |-> d, kind |-> "dir"] : d \in {DirB, DirC}}

\* a file lies in a directory that exists
Trees ==
    {t \in SUBSET TreeEntries :
        [path |-> FileBA, kind |-> "file"] \in t => [path |-> DirB, kind |-> "dir"] \in t}

ExactNames == {FileA, FileBA, DirB}

BadPattern == [anchored |-> FALSE, lit |-> <<"(">>, toEnd |-> FALSE, valid |-> FALSE]

ZipPatterns ==
    { Pattern(FALSE, <<"a">>, FALSE),       \* 'a'
      Pattern(TRUE, <<"a">>, FALSE),        \* '^a'
      Pattern(FALSE, <<"b">>, TRUE),        \* 'b$'
      Pattern(TRUE, <<"b", "/">>, FALSE),   \* '^b/'
      BadPattern }                          \* '('

FilesOf(tree) == {e.path : e \in {x \in tree : x.kind = "file"}}

DirsOf(tree) == {e.path : e \in {x \in tree : x.kind = "dir"}}

\* lines 386-393: the path is one of the exact names
OmittedByName(path) == \E exact_name \in zip_omit_exact_names : exact_name = path

\* lines 394-398: some compiled pattern is found in the path
OmittedByPattern(path) == \E regex \in zip_omit_patterns : re_search(regex, path)

ZipIdle ==
    /\ tmp_tree = {}
    /\ zip_omit_exact_names = {}
    /\ zip_omit_patterns = {}
    /\ zip_pc = "idle"
    /\ walk_todo = {}
    /\ zip_namelist = <<>>
    /\ omitted_file_count = 0
    /\ zipped_file_count = 0

ZipInit ==
    /\ tmp_tree \in Trees
    /\ zip_omit_exact_names \in SUBSET ExactNames
    /\ zip_omit_patterns \in SUBSET ZipPatterns
    /\ zip_pc = "start"
    /\ walk_todo = {}
    /\ zip_namelist = <<>>
    /\ omitted_file_count = 0
    /\ zipped_file_count = 0

\* compiling each pattern only when a path is first tested against it
CompilesAll_lazily(patterns) == TRUE

\* lines 376-379: re.compile of every pattern, before anything else
CompilesAll(patterns) == \A pattern \in patterns : pattern.valid

\* lines 368-381: every pattern compiles, the archive is opened, the walk begins
ZipOpen ==
    /\ zip_pc = "start"
    /\ CompilesAll(zip_omit_patterns)
    /\ zip_pc' = "walk"
    /\ walk_todo' = FilesOf(tmp_tree)
    /\ UNCHANGED <<tmp_tree, zip_omit_exact_names, zip_omit_patterns, zip_namelist,
                   omitted_file_count, zipped_file_count>>
    /\ UNCHANGED <<installVars, fpVars, runVars, buildVars>>

\* line 378: re.compile raises on a malformed pattern
ZipCompileError ==
    /\ zip_pc = "start"
    /\ ~CompilesAll(zip_omit_patterns)
    /\ zip_pc' = "re.error"
    /\ UNCHANGED <<tmp_tree, zip_omit_exact_names, zip_omit_patterns, walk_todo, zip_namelist,
                   omitted_file_count, zipped_file_count>>
    /\ UNCHANGED <<installVars, fpVars, runVars, buildVars>>

\* lines 383-402: the next file of the walk, in whatever order os.walk lists them
ZipVisitFile ==
    /\ zip_pc = "walk"
    /\ \E path \in walk_todo :
          /\ walk_todo' = walk_todo \ {path}
          /\ IF OmittedByName(path) \/ OmittedByPattern(path)
             THEN /\ omitted_file_count' = omitted_file_count + 1
                  /\ UNCHANGED <<zip_namelist, zipped_file_count>>
             ELSE /\ zip_namelist' = Append(zip_namelist, path)
                  /\ zipped_file_count' = zipped_file_count + 1
                  /\ UNCHANGED omitted_file_count
    /\ UNCHANGED <<tmp_tree, zip_omit_exact_names, zip_omit_patterns, zip_pc>>
    /\ UNCHANGED <<installVars, fpVars, runVars, buildVars>>

\* lines 403-404
ZipReturn ==
    /\ zip_pc = "walk"
    /\ walk_todo = {}
    /\ zip_pc' = "returned"
    /\ UNCHANGED <<tmp_tree, zip_omit_exact_names, zip_omit_patterns, walk_todo, zip_namelist,
                   omitted_file_count, zipped_file_count>>
    /\ UNCHANGED <<installVars, fpVars, runVars, buildVars>>

ZipNext ==
    \/ ZipOpen
    \/ ZipCompileError
    \/ ZipVisitFile
    \/ ZipReturn

\* the pattern's text occurs somewhere in the path, at the start if the
\* pattern begins with '^' and up to the end if it ends with '$'
FoundAnywhere(pattern, path) ==
    \E k \in 0..Len(path) :
        /\ k + Len(pattern.lit) <= Len(path)
        /\ \A n \in 1..Len(pattern.lit) : path[k + n] = pattern.lit[n]
        /\ pattern.anchored => k = 0
        /\ pattern.toEnd => k + Len(pattern.lit) = Len(path)

Members == {zip_namelist[i] : i \in 1..Len(zip_namelist)}

\* C6: create_zip_file writes a file as a member iff its relative path is not
\* an exact name and no pattern is found anywhere in it; with no exact names
\* and no patterns every file is a member; a directory never is.
C6_MembersAreTheFilesNotExcluded ==
    zip_pc = "returned" =>
       /\ Members = {f \in FilesOf(tmp_tree) :
                        /\ f \notin zip_omit_exact_names
                        /\ \A r \in zip_omit_patterns : ~FoundAnywhere(r, f)}
       /\ (zip_omit_exact_names = {} /\ zip_omit_patterns = {}) => Members = FilesOf(tmp_tree)
       /\ Members \cap DirsOf(tmp_tree) = {}
       /\ Cardinality(Members) = Len(zip_namelist)

C6_Witness ==
    /\ zip_pc = "returned"
    /\ FileBA \in Members
    /\ FileA \in FilesOf(tmp_tree) /\ FileA \in zip_omit_exact_names
    /\ FileAB \in FilesOf(tmp_tree) /\ FileAB \notin Members
    /\ zip_omit_patterns = {Pattern(FALSE, <<"b">>, TRUE)}
    /\ DirB \in zip_omit_exact_names

\* C15: when some exclusion pattern is malformed, create_zip_file fails while
\* it compiles the patterns: the archive is never opened and no file is
\* tested or written, whether or not any path would have been tested
\* against that pattern.
C15_MalformedPatternFailsBeforeArchive ==
    (\E pattern \in zip_omit_patterns : ~pattern.valid) =>
       /\ zip_pc \in {"start", "re.error"}
       /\ walk_todo = {}
       /\ zip_namelist = <<>>
       /\ omitted_file_count = 0 /\ zipped_file_count = 0

\* the malformed pattern is given along with a tree in which no file would
\* ever be tested against a pattern: the one file is an exact name
C15_Witness ==
    /\ zip_pc = "re.error"
    /\ BadPattern \in zip_omit_patterns
    /\ FilesOf(tmp_tree) = {FileA}
    /\ FileA \in zip_omit_exact_names
    /\ zip_namelist = <<>>

InstallNext ==
    \/ InstallCall
    \/ ManifestError
    \/ ReadManifest
    \/ Recurse
    \/ RecursionOverflow
    \/ PipInstall
    \/ PipFails


(***************************************************************************)
(* Layer versions: AwsLambdaLayerVersion and AwsLambdaLayer                *)
(***************************************************************************)
\* the base64 texts of two digests, and Python's None
Fingerprints == {"sha_x", "sha_y"}

None == "None"

\* What a Description can be: absent (None), text that is not JSON, JSON that
\* is a number, JSON that is a string, a JSON object without 'sha256b64', or a
\* JSON object with it.
Descriptions ==
    {[json |-> k, sha256b64 |-> None] : k \in {"absent", "invalid", "number", "string", "object"}}
    \cup {[json |-> "object", sha256b64 |-> f] : f \in Fingerprints}

\* an AwsLambdaLayerVersion built from one entry of a list_layer_versions page
\* (the entries carry LayerVersionArn but no LayerArn)
LayerVersion(n, description) ==
    [type |-> "AwsLambdaLayerVersion", Version |-> n, Description |-> description,
     LayerArn |-> None]

NoVersion == [type |-> "None", Version |-> 0, Description |-> [json |-> "absent", sha256b64 |-> None],
              LayerArn |-> None]

\* aws_lambda_layer_version.py lines 69-89: get_description_encoded_metadata
get_description_encoded_metadata(ver) ==
    IF ver.Description.json \in {"absent", "invalid"}
    THEN [raised |-> "none", metadata |-> NoVersion.Description]   \* json.loads raised: None
    ELSE IF ver.Description.json = "number"
    THEN [raised |-> "TypeError", metadata |-> NoVersion.Description] \* 'in' on an int
    ELSE [raised |-> "none", metadata |-> ver.Description]

get_metadata_sha256b64_no_return(ver) == [raised |-> "none", value |-> None]

\* aws_lambda_layer_version.py lines 91-96: get_metadata_sha256b64
get_metadata_sha256b64(ver) ==
    LET got == get_description_encoded_metadata(ver)
    IN IF got.raised # "none" THEN [raised |-> got.raised, value |-> None]
       ELSE IF got.metadata.json = "absent" THEN [raised |-> "none", value |-> None]
       ELSE IF got.metadata.json = "string" THEN [raised |-> "TypeError", value |-> None]
       ELSE IF got.metadata.sha256b64 = None THEN [raised |-> "KeyError", value |-> None]
       ELSE [raised |-> "none", value |-> got.metadata.sha256b64]

\* aws_lambda_layer.py lines 74-78: the loop over available_versions.items()
RECURSIVE ScanVersions(_, _, _)
ScanVersions(versions, search_val, candidate_match) ==
    IF versions = <<>> THEN [raised |-> "none", match |-> candidate_match]
    ELSE LET sha == get_metadata_sha256b64(Head(versions))
         IN IF sha.raised # "none" THEN [raised |-> sha.raised, match |-> NoVersion]
            ELSE ScanVersions(Tail(versions), search_val,
                              IF search_val = sha.value THEN Head(versions)
                              ELSE candidate_match)

\* aws_lambda_layer.py lines 67-78
get_highest_version_matching_sha256b64(versions, search_val) ==
    ScanVersions(versions, search_val, NoVersion)

(***************************************************************************)
(* cli_entry_point, lines 570-677                                          *)
(***************************************************************************)
VersionNumbers == 1..MaxVersions

Registries ==
    {r \in UNION {[1..n -> [Version : VersionNumbers, Description : Descriptions]] :
                     n \in 0..MaxVersions} :
        \A i, j \in 1..Len(r) : r[i].Version = r[j].Version => i = j}

ArgSets == [aws_lambda_update : BOOLEAN, layer_name : BOOLEAN, layer_s3_url : BOOLEAN,
            upload_s3_url : BOOLEAN, keep : BOOLEAN, tmp_dir : BOOLEAN]

(***************************************************************************)
(* Metadata.  A dict is a function from its keys to the JSON text of its   *)
(* values; json.dumps(..., sort_keys=True) is the sequence of its          *)
(* (key, value) pairs in key order.                                        *)
(***************************************************************************)
EmptyDict == [k \in {} |-> ""]

\* the repository at src_dir: none, or one with a branch checked out
GitStates == {"no_repo", "on_branch"}

\* socket.gethostname() and int(time.time()) of the machine that builds
BuildHosts == {"h1"}

BuildTimes == {"1700000001", "1700000002"}

\* lines 436-453; with no repository git.Repo raises
git_get_metadata(git) ==
    (IF git = "on_branch" THEN [k \in {"branch"} |-> "main"] ELSE EmptyDict)
    @@ [k \in {"commit"} |-> "c0ffee"]
    @@ [k \in {"describe"} |-> "v1"]
    @@ [k \in {"dirty"} |-> "false"]
    @@ [k \in {"untracked"} |-> "0"]

\* lines 412-417
get_builder_metadata(host, time) ==
    [k \in {"host"} |-> host] @@ [k \in {"timestamp"} |-> time] @@ [k \in {"user"} |-> "u1"]

\* dict.update(other): the keys of other win
DictUpdate(d, other) == other @@ d

\* lines 232-239: the git metadata if it can be had, the builder's, the fingerprint
update_metadata(git, host, time, sha) ==
    DictUpdate(DictUpdate(IF git = "no_repo" THEN EmptyDict ELSE git_get_metadata(git),
                          get_builder_metadata(host, time)),
               [k \in {"sha256b64"} |-> sha])

\* the keys the program uses, in code point order
KeyOrder == <<"branch", "commit", "describe", "dirty", "host", "sha256b64", "timestamp",
              "untracked", "user">>

\* line 190: json.dumps(metadata, separators=(',', ':'), sort_keys=True)
json_dumps(d) ==
    LET IsKey(k) == k \in DOMAIN d
        keys == SelectSeq(KeyOrder, IsKey)
    IN [i \in 1..Len(keys) |-> <<keys[i], d[keys[i]]>>]

\* no Description has been sent
NoDescription == <<>>

OldFunction == [code |-> "old", layers |-> <<>>]

RunIdle ==
    /\ args = [aws_lambda_update |-> FALSE, layer_name |-> FALSE, layer_s3_url |-> FALSE,
               upload_s3_url |-> FALSE, keep |-> FALSE, tmp_dir |-> FALSE]
    /\ run_pc = "idle"
    /\ run_error = "none"
    /\ registry = <<>>
    /\ layer_sha = None
    /\ available_versions = <<>>
    /\ duplicate = NoVersion
    /\ use_layer_version = NoVersion
    /\ api_log = <<>>
    /\ lambda_function = OldFunction
    /\ layer_metadata = EmptyDict
    /\ encoded_metadata = NoDescription
    /\ staging_dir = "none"
    /\ open_archives = {}
    /\ exited = FALSE

\* runs with neither --keep nor --tmp-dir, against every registry
RunInit ==
    /\ args \in {a \in ArgSets : ~a.keep /\ ~a.tmp_dir}
    /\ run_pc = "check_args"
    /\ run_error = "none"
    /\ registry \in Registries
    /\ layer_sha = None
    /\ available_versions = <<>>
    /\ duplicate = NoVersion
    /\ use_layer_version = NoVersion
    /\ api_log = <<>>
    /\ lambda_function = OldFunction
    /\ layer_metadata = EmptyDict
    /\ encoded_metadata = NoDescription
    /\ staging_dir = "none"
    /\ open_archives = {}
    /\ exited = FALSE

\* runs with every combination of options, against a layer of at most one version
RunInitAllArgs ==
    /\ args \in ArgSets
    /\ run_pc = "check_args"
    /\ run_error = "none"
    /\ registry \in {r \in Registries : Len(r) <= 1}
    /\ layer_sha = None
    /\ available_versions = <<>>
    /\ duplicate = NoVersion
    /\ use_layer_version = NoVersion
    /\ api_log = <<>>
    /\ lambda_function = OldFunction
    /\ layer_metadata = EmptyDict
    /\ encoded_metadata = NoDescription
    /\ staging_dir = "none"
    /\ open_archives = {}
    /\ exited = FALSE

Running(pc) == run_pc = pc /\ run_error = "none"

\* the exception ends the run at the statement it was raised in
Raise(error) == run_error' = error /\ UNCHANGED run_pc

Goto(pc) == run_pc' = pc /\ UNCHANGED run_error

MaxOf(numbers) == CHOOSE n \in numbers : \A m \in numbers : m <= n

\* lines 606-615: the pip version check and the option check
CheckArgs ==
    /\ Running("check_args")
    /\ IF args.aws_lambda_update /\ ~args.upload_s3_url
       THEN Raise("KeyError")
       ELSE Goto("tmp_dir")
    /\ UNCHANGED <<args, registry, layer_sha, available_versions, duplicate, use_layer_version,
                   api_log, lambda_function>>
    /\ UNCHANGED <<layer_metadata, encoded_metadata, staging_dir, open_archives, exited>>
    /\ UNCHANGED <<installVars, fpVars, zipVars, buildVars>>

\* lines 606-611: the installed pip is older than 22.2
PipTooOld ==
    /\ Running("check_args")
    /\ args.layer_name \/ args.layer_s3_url
    /\ Raise("ValueError")
    /\ UNCHANGED <<args, registry, layer_sha, available_versions, duplicate, use_layer_version,
                   api_log, lambda_function>>
    /\ UNCHANGED <<layer_metadata, encoded_metadata, staging_dir, open_archives, exited>>
    /\ UNCHANGED <<installVars, fpVars, zipVars, buildVars>>

\* lines 620-629: the given directory is made or found, or a TemporaryDirectory made
MakeTmpDir ==
    /\ Running("tmp_dir")
    /\ staging_dir' = "exists"
    /\ Goto("lambda_zip")
    /\ UNCHANGED <<args, registry, layer_sha, available_versions, duplicate, use_layer_version,
                   api_log, lambda_function>>
    /\ UNCHANGED <<layer_metadata, encoded_metadata, open_archives, exited>>
    /\ UNCHANGED <<installVars, fpVars, zipVars, buildVars>>

\* a ZipFile nothing refers to any more: whether it has been finalized (and
\* so closed) by now is the interpreter's choice
Unreferenced(archive) == {open_archives, open_archives \cup {archive}}

\* lines 631-639: the primary artifact (args['aws_lambda_update'] is read at line 633).
\* Lines 316-321: the ZipFile create_zip_file returns is never closed.
BuildLambdaZip ==
    /\ Running("lambda_zip")
    /\ IF ~args.aws_lambda_update
       THEN Raise("KeyError") /\ UNCHANGED open_archives
       ELSE /\ Goto(IF args.layer_name THEN "layer_zip" ELSE "s3_upload")
            /\ open_archives' \in Unreferenced("lambda_zip")
    /\ UNCHANGED <<args, registry, layer_sha, available_versions, duplicate, use_layer_version,
                   api_log, lambda_function>>
    /\ UNCHANGED <<layer_metadata, encoded_metadata, staging_dir, exited>>
    /\ UNCHANGED <<installVars, fpVars, zipVars, buildVars>>

\* lines 641-649: the shared-layer artifact and its fingerprint
\* (args['layer_s3_url'] is read at line 647)
\* Lines 139-171: the archive is hashed, closed (line 168), and the metadata
\* gathered (line 171).
BuildLayerZip ==
    /\ Running("layer_zip")
    /\ IF ~args.layer_s3_url
       THEN Raise("KeyError") /\ UNCHANGED <<layer_sha, layer_metadata>>
       ELSE /\ Goto("get_lambda_layer")
            /\ \E sha \in Fingerprints, git \in GitStates, host \in BuildHosts,
                  time \in BuildTimes :
                  /\ layer_sha' = sha
                  /\ layer_metadata' = update_metadata(git, host, time, sha)
    /\ UNCHANGED <<args, registry, available_versions, duplicate, use_layer_version,
                   api_log, lambda_function>>
    /\ UNCHANGED <<encoded_metadata, staging_dir, open_archives, exited>>
    /\ UNCHANGED <<installVars, fpVars, zipVars, buildVars>>

\* install_to_dir raises, or create_zip_file or the hashing loop raises with
\* the ZipFile open (no try/finally closes it)
BuildFails ==
    /\ \/ /\ Running("lambda_zip") /\ args.aws_lambda_update
          /\ open_archives' \in Unreferenced("lambda_zip")
       \/ /\ Running("layer_zip") /\ args.layer_s3_url
          /\ open_archives' \in Unreferenced("layer_zip")
    /\ Raise("BuildError")
    /\ UNCHANGED <<args, registry, layer_sha, available_versions, duplicate, use_layer_version,
                   api_log, lambda_function>>
    /\ UNCHANGED <<layer_metadata, encoded_metadata, staging_dir, exited>>
    /\ UNCHANGED <<installVars, fpVars, zipVars, buildVars>>

\* line 651, aws_lambda_layer.py lines 36-56: list the versions, wrap each one,
\* then copy the fields of the highest (None when there is no version)
GetLambdaLayer ==
    /\ Running("get_lambda_layer")
    /\ api_log' = Append(api_log, "list_layer_versions")
    /\ available_versions' =
          [i \in 1..Len(registry) |-> LayerVersion(registry[i].Version, registry[i].Description)]
    /\ IF registry = <<>> THEN Raise("AttributeError") ELSE Goto("find_duplicate")
    /\ UNCHANGED <<args, registry, layer_sha, duplicate, use_layer_version, lambda_function>>
    /\ UNCHANGED <<layer_metadata, encoded_metadata, staging_dir, open_archives, exited>>
    /\ UNCHANGED <<installVars, fpVars, zipVars, buildVars>>

\* lines 652-655: the scan for a version of the same fingerprint
FindDuplicate ==
    /\ Running("find_duplicate")
    /\ LET found == get_highest_version_matching_sha256b64(available_versions, layer_sha)
       IN IF found.raised # "none"
          THEN Raise(found.raised) /\ UNCHANGED <<duplicate, use_layer_version>>
          ELSE /\ duplicate' = found.match
               /\ IF found.match # NoVersion
                  THEN use_layer_version' = found.match /\ Goto("s3_upload")
                  ELSE UNCHANGED use_layer_version /\ Goto("upload_to_s3")
    /\ UNCHANGED <<args, registry, layer_sha, available_versions, api_log, lambda_function>>
    /\ UNCHANGED <<layer_metadata, encoded_metadata, staging_dir, open_archives, exited>>
    /\ UNCHANGED <<installVars, fpVars, zipVars, buildVars>>

\* line 656: layer_zip.upload_to_s3()
LayerUpload ==
    /\ Running("upload_to_s3")
    /\ api_log' = Append(api_log, "upload_layer")
    /\ Goto("publish")
    /\ UNCHANGED <<args, registry, layer_sha, available_versions, duplicate, use_layer_version,
                   lambda_function>>
    /\ UNCHANGED <<layer_metadata, encoded_metadata, staging_dir, open_archives, exited>>
    /\ UNCHANGED <<installVars, fpVars, zipVars, buildVars>>

\* line 657, lines 194-215: publish_layer_version; the registry numbers the new
\* version, and publish() returns the response dict
Publish ==
    /\ Running("publish")
    /\ api_log' = Append(api_log, "publish_layer_version")
    /\ LET number == IF registry = <<>> THEN 1
                     ELSE MaxOf({registry[i].Version : i \in 1..Len(registry)}) + 1
       IN /\ registry' = Append(registry,
                                [Version |-> number,
                                 Description |-> [json |-> "object",
                                                  sha256b64 |-> layer_metadata["sha256b64"]]])
          /\ use_layer_version' = [type |-> "dict", Version |-> number,
                                   Description |-> [json |-> "object",
                                                    sha256b64 |-> layer_metadata["sha256b64"]],
                                   LayerArn |-> "arn"]
    /\ encoded_metadata' = json_dumps(layer_metadata)
    /\ Goto("s3_upload")
    /\ UNCHANGED <<args, layer_sha, available_versions, duplicate, lambda_function>>
    /\ UNCHANGED <<layer_metadata, staging_dir, open_archives, exited>>
    /\ UNCHANGED <<installVars, fpVars, zipVars, buildVars>>

\* lines 659-664: the primary artifact goes to S3
S3Upload ==
    /\ Running("s3_upload")
    /\ api_log' = IF args.upload_s3_url THEN Append(api_log, "upload_lambda") ELSE api_log
    /\ Goto("lambda_update")
    /\ UNCHANGED <<args, registry, layer_sha, available_versions, duplicate, use_layer_version,
                   lambda_function>>
    /\ UNCHANGED <<layer_metadata, encoded_metadata, staging_dir, open_archives, exited>>
    /\ UNCHANGED <<installVars, fpVars, zipVars, buildVars>>

\* lines 666-677 and 323-350: update_function_code, and with a layer_arn
\* update_function_configuration (called with Function_name, a parameter the
\* API does not have).  use_layer_version.LayerArn is an attribute lookup: the
\* dict publish() returned has no attributes.
LambdaUpdate ==
    /\ Running("lambda_update")
    /\ IF ~args.aws_lambda_update
       THEN Goto("done") /\ UNCHANGED <<api_log, lambda_function>>
       ELSE IF args.layer_name /\ use_layer_version.type = "dict"
       THEN Raise("AttributeError") /\ UNCHANGED <<api_log, lambda_function>>
       ELSE LET layer_arn == IF args.layer_name THEN use_layer_version.LayerArn ELSE None
            IN /\ lambda_function' = [lambda_function EXCEPT !.code = "new"]
               /\ IF layer_arn # None
                  THEN /\ api_log' = api_log \o <<"update_function_code",
                                                  "update_function_configuration">>
                       /\ Raise("ParamValidationError")
                  ELSE /\ api_log' = Append(api_log, "update_function_code")
                       /\ Goto("done")
    /\ UNCHANGED <<args, registry, layer_sha, available_versions, duplicate, use_layer_version>>
    /\ UNCHANGED <<layer_metadata, encoded_metadata, staging_dir, open_archives, exited>>
    /\ UNCHANGED <<installVars, fpVars, zipVars, buildVars>>

\* a remote call fails: listing, uploading, publishing or updating
RemoteApiError ==
    /\ \/ Running("get_lambda_layer")
       \/ Running("upload_to_s3")
       \/ Running("publish")
       \/ Running("s3_upload") /\ args.upload_s3_url
       \/ Running("lambda_update") /\ args.aws_lambda_update
    /\ Raise("RemoteApiError")
    /\ UNCHANGED <<args, registry, layer_sha, available_versions, duplicate, use_layer_version,
                   api_log, lambda_function>>
    /\ UNCHANGED <<layer_metadata, encoded_metadata, staging_dir, open_archives, exited>>
    /\ UNCHANGED <<installVars, fpVars, zipVars, buildVars>>

\* the run is over, by return or by exception, and the interpreter shuts down:
\* a TemporaryDirectory is removed by its finalizer, a directory given with
\* --tmp-dir is left as it is; args['keep'] is read nowhere
Exit ==
    /\ ~exited
    /\ run_pc = "done" \/ run_error # "none"
    /\ exited' = TRUE
    /\ staging_dir' = IF staging_dir = "exists" /\ ~args.tmp_dir THEN "removed" ELSE staging_dir
    /\ UNCHANGED <<args, run_pc, run_error, registry, layer_sha, available_versions, duplicate,
                   use_layer_version, api_log, lambda_function>>
    /\ UNCHANGED <<layer_metadata, encoded_metadata, open_archives>>
    /\ UNCHANGED <<installVars, fpVars, zipVars, buildVars>>

Next ==
    \/ CheckArgs
    \/ PipTooOld
    \/ MakeTmpDir
    \/ BuildLambdaZip
    \/ BuildLayerZip
    \/ BuildFails
    \/ GetLambdaLayer
    \/ FindDuplicate
    \/ LayerUpload
    \/ Publish
    \/ S3Upload
    \/ LambdaUpdate
    \/ RemoteApiError
    \/ Exit

(***************************************************************************)
(* The two artifacts of one run: cli_entry_point lines 617-649, with       *)
(* NewAwsLambdaZip.__init__ and NewAwsLambdaLayerZip.__init__ as far as    *)
(* the member list.  The installer and create_zip_file run as modelled     *)
(* above, on the arguments these constructors give them.                   *)
(***************************************************************************)
\* what pip writes below the target directory for a project: its module,
\* and for the project being packaged also its tests
PackageFiles(p) == IF p = ProjectAt(TopDir) THEN {<<p>>, <<p, "_", "t">>} ELSE {<<p>>}

\* what pip adds when it is not given --no-deps: the third-party packages
ThirdPartyFiles == BuiltinDeps

\* the files below a target directory after the pip invocations so far
InstalledFiles(dst) ==
    UNION {PackageFiles(ProjectAt(pip_log[i].packages.parts))
           \cup (IF pip_log[i].install_dependencies THEN ThirdPartyFiles ELSE {}) :
           i \in {j \in 1..Len(pip_log) : pip_log[j].target_dir = dst /\ pip_log[j].ok}}

\* --omit patterns a caller may give: '_t' and the malformed '('
CallerOmit == {Pattern(FALSE, <<"_", "t">>, FALSE), BadPattern}

BuildArgSets == [layer_name : BOOLEAN, omit : SUBSET CallerOmit]

\* manifests of the projects of a run: no project names itself as a sibling
BuildManifests ==
    {m \in [Projects -> Manifests] : \A p \in Projects : p \notin m[p].local_dependency}

\* zip_namelist of an artifact that has not been built
NotBuilt == <<<<>>>>

PythonPrefix == <<"python", "/">>

\* lines 308-314: no omit_projects, the caller's omit_path_patterns (the
\* module-level zip_omit object itself) and '^' + each built-in name
LambdaOmitPatterns == zip_omit \cup {Anchored(dep) : dep \in BuiltinDeps}

\* line 129 without the prefix
LayerOmitPathnames_unprefixed(namelist) == {namelist[i] : i \in 1..Len(namelist)}

\* line 129: 'python/' + each member name of the primary artifact
LayerOmitPathnames(namelist) == {PythonPrefix \o namelist[i] : i \in 1..Len(namelist)}

\* lines 131-137: omit_projects and omit_path_patterns are not given (lines
\* 643-649), which leaves '^python/' + each built-in name
LayerOmitPatterns == {Anchored(PythonPrefix \o dep) : dep \in BuiltinDeps}

BuildIdle ==
    /\ build_args = [layer_name |-> FALSE, omit |-> {}]
    /\ build_pc = "idle"
    /\ lambda_zip_namelist = NotBuilt
    /\ layer_zip_namelist = NotBuilt

BuildInit ==
    /\ build_args \in BuildArgSets
    /\ build_pc = "omit"
    /\ lambda_zip_namelist = NotBuilt
    /\ layer_zip_namelist = NotBuilt
    /\ manifest \in BuildManifests
    /\ stack = <<>>
    /\ local_deps_already_installed = {}
    /\ zip_omit = DefaultZipOmit
    /\ pip_log = <<>>
    /\ install_result = "idle"
    /\ install_error_dir = <<>>
    /\ dst_dir = NoDir

\* lines 617-618: every --omit pattern joins the module-level zip_omit
AddOmitPatterns ==
    /\ build_pc = "omit"
    /\ zip_omit' = zip_omit \cup build_args.omit
    /\ build_pc' = "lambda_install"
    /\ UNCHANGED <<manifest, stack, local_deps_already_installed, pip_log, install_result,
                   install_error_dir, dst_dir>>
    /\ UNCHANGED <<build_args, lambda_zip_namelist, layer_zip_namelist>>
    /\ UNCHANGED <<fpVars, zipVars, runVars>>

\* lines 631-639 and 301-305: NewAwsLambdaZip.__init__ calls install_to_dir,
\* without third-party packages when a layer is to hold them
LambdaInstall ==
    /\ build_pc = "lambda_install"
    /\ stack' = <<Frame(Path(TopDir), ~build_args.layer_name)>>
    /\ dst_dir' = LambdaDir
    /\ install_result' = "running"
    /\ build_pc' = "lambda_installing"
    /\ UNCHANGED <<manifest, local_deps_already_installed, zip_omit, pip_log, install_error_dir>>
    /\ UNCHANGED <<build_args, lambda_zip_namelist, layer_zip_namelist>>
    /\ UNCHANGED <<fpVars, zipVars, runVars>>

\* the arguments of a create_zip_file call
CallCreateZipFile(files, exact_names, patterns) ==
    /\ tmp_tree' = files
    /\ zip_omit_exact_names' = exact_names
    /\ zip_omit_patterns' = patterns
    /\ zip_pc' = "start"
    /\ walk_todo' = {}
    /\ zip_namelist' = <<>>
    /\ omitted_file_count' = 0
    /\ zipped_file_count' = 0

\* lines 307-320: install_to_dir has returned, create_zip_file is called
LambdaZip ==
    /\ build_pc = "lambda_installing"
    /\ install_result = "returned"
    /\ CallCreateZipFile({[path |-> f, kind |-> "file"] : f \in InstalledFiles(LambdaDir)},
                         {}, LambdaOmitPatterns)
    /\ build_pc' = "lambda_zipping"
    /\ UNCHANGED <<build_args, lambda_zip_namelist, layer_zip_namelist>>
    /\ UNCHANGED <<installVars, fpVars, runVars>>

\* line 321, then line 641
LambdaZipReturns ==
    /\ build_pc = "lambda_zipping"
    /\ zip_pc = "returned"
    /\ lambda_zip_namelist' = zip_namelist
    /\ build_pc' = IF build_args.layer_name THEN "layer_install" ELSE "done"
    /\ UNCHANGED <<build_args, layer_zip_namelist>>
    /\ UNCHANGED <<installVars, fpVars, zipVars, runVars>>

\* lines 641-649 and 120-126: NewAwsLambdaLayerZip.__init__ calls install_to_dir
LayerInstall ==
    /\ build_pc = "layer_install"
    /\ stack' = <<Frame(Path(TopDir), TRUE)>>
    /\ dst_dir' = LayerPythonDir
    /\ install_result' = "running"
    /\ build_pc' = "layer_installing"
    /\ UNCHANGED <<manifest, local_deps_already_installed, zip_omit, pip_log, install_error_dir>>
    /\ UNCHANGED <<build_args, lambda_zip_namelist, layer_zip_namelist>>
    /\ UNCHANGED <<fpVars, zipVars, runVars>>

\* lines 128-144: the walk starts at <tmp>/layer, so every file is below python/
LayerZip ==
    /\ build_pc = "layer_installing"
    /\ install_result = "returned"
    /\ CallCreateZipFile({[path |-> PythonPrefix \o f, kind |-> "file"] :
                             f \in InstalledFiles(LayerPythonDir)}
                         \cup {[path |-> <<"python">>, kind |-> "dir"]},
                         LayerOmitPathnames(lambda_zip_namelist), LayerOmitPatterns)
    /\ build_pc' = "layer_zipping"
    /\ UNCHANGED <<build_args, lambda_zip_namelist, layer_zip_namelist>>
    /\ UNCHANGED <<installVars, fpVars, runVars>>

\* line 145
LayerZipReturns ==
    /\ build_pc = "layer_zipping"
    /\ zip_pc = "returned"
    /\ layer_zip_namelist' = zip_namelist
    /\ build_pc' = "done"
    /\ UNCHANGED <<build_args, lambda_zip_namelist>>
    /\ UNCHANGED <<installVars, fpVars, zipVars, runVars>>

BuildNext ==
    \/ AddOmitPatterns
    \/ LambdaInstall
    \/ LambdaZip
    \/ LambdaZipReturns
    \/ LayerInstall
    \/ LayerZip
    \/ LayerZipReturns
    \/ ManifestError
    \/ ReadManifest
    \/ Recurse
    \/ RecursionOverflow
    \/ PipInstall
    \/ PipFails
    \/ ZipOpen
    \/ ZipCompileError
    \/ ZipVisitFile
    \/ ZipReturn

(***************************************************************************)
(* The specifications: one per part of the program, the rest left idle     *)
(***************************************************************************)
InitInstall == InstallInit /\ FpIdle /\ ZipIdle /\ RunIdle /\ BuildIdle

SpecInstall == InitInstall /\ [][InstallNext]_vars

InitFingerprint == FpInit /\ InstallIdle /\ ZipIdle /\ RunIdle /\ BuildIdle

SpecFingerprint == InitFingerprint /\ [][FpNext]_vars

InitZip == ZipInit /\ InstallIdle /\ FpIdle /\ RunIdle /\ BuildIdle

SpecZip == InitZip /\ [][ZipNext]_vars

Init == RunInit /\ InstallIdle /\ FpIdle /\ ZipIdle /\ BuildIdle

Spec == Init /\ [][Next]_vars

InitAllArgs == RunInitAllArgs /\ InstallIdle /\ FpIdle /\ ZipIdle /\ BuildIdle

SpecAllArgs == InitAllArgs /\ [][Next]_vars

InitBuild == BuildInit /\ FpIdle /\ ZipIdle /\ RunIdle

SpecBuild == InitBuild /\ [][BuildNext]_vars

(***************************************************************************)
(* Properties of the run and of the layer version scan                     *)
(***************************************************************************)
\* the fingerprint a version's description embeds, None when it embeds none
EmbeddedFingerprint(version) ==
    IF version.Description.json = "object" THEN version.Description.sha256b64 ELSE None

\* the versions of the list whose description embeds the fingerprint
Matching(versions, fingerprint) ==
    {i \in 1..Len(versions) : EmbeddedFingerprint(versions[i]) = fingerprint}

LayerCalls(log) ==
    Cardinality({i \in 1..Len(log) : log[i] \in {"upload_layer", "publish_layer_version"}})

\* the scan of lines 652-655 has returned
ScanReturned ==
    run_pc \in {"upload_to_s3", "publish", "s3_upload", "lambda_update", "done"} /\ args.layer_name

\* C2: the registry is queried for the new layer artifact's fingerprint
\* before any publish, and while some version of the registry embeds that
\* fingerprint the run neither uploads the layer nor publishes a version: the
\* registry keeps the versions it has.
C2_NoPublishWhenFingerprintExists ==
    [][ /\ LayerCalls(api_log') > LayerCalls(api_log) =>
             /\ \E i \in 1..Len(api_log) : api_log[i] = "list_layer_versions"
             /\ ScanReturned
        /\ (layer_sha # None /\ Matching(registry, layer_sha) # {}) =>
             /\ registry' = registry
             /\ LayerCalls(api_log') = LayerCalls(api_log) ]_vars

C2_Witness ==
    /\ run_pc = "s3_upload"
    /\ args.layer_name
    /\ Matching(registry, layer_sha) # {}
    /\ duplicate # NoVersion
    /\ LayerCalls(api_log) = 0
    /\ Len(registry) = 2

\* C3: whatever the order the pages deliver the versions in,
\* get_highest_version_matching_sha256b64(f) returns the version of the
\* greatest number among those whose description embeds f, and None when no
\* description embeds f.
C3_HighestMatchingVersion ==
    ScanReturned =>
       LET hits == Matching(available_versions, layer_sha)
       IN IF hits = {} THEN duplicate = NoVersion
          ELSE /\ duplicate \in {available_versions[i] : i \in hits}
               /\ \A i \in hits : available_versions[i].Version <= duplicate.Version

\* a description the scan is to pass over: absent, not JSON, JSON that is no
\* object, or an object without 'sha256b64'
Unusable(version) == EmbeddedFingerprint(version) = None

Called(call) == \E i \in 1..Len(api_log) : api_log[i] = call

\* the keys of the JSON object sent as Description
DescriptionKeys == {encoded_metadata[i][1] : i \in 1..Len(encoded_metadata)}

\* the VCS fields and the fingerprint key
VcsAndFingerprintKeys == {"branch", "commit", "describe", "dirty", "untracked", "sha256b64"}

\* C12: the description publish() sends is a JSON object whose keys are
\* exactly branch, commit, describe, dirty, untracked and the fingerprint
\* key, so it is the same text for the same VCS state and fingerprint,
\* whatever the host, the user and the time of the build.
C12_DescriptionIsVcsAndFingerprintOnly ==
    Called("publish_layer_version") =>
       /\ DescriptionKeys = VcsAndFingerprintKeys
       /\ encoded_metadata =
             json_dumps([k \in (DOMAIN layer_metadata) \cap VcsAndFingerprintKeys |->
                            layer_metadata[k]])

\* C13: on every exit path, exits by error while an archive is written or
\* hashed included, every archive handle that was opened has been closed,
\* and the staging directory has been removed unless keep is set, in which
\* case it is still there.
C13_HandlesClosedAndStagingRemoved ==
    exited =>
       /\ open_archives = {}
       /\ staging_dir # "none" => (staging_dir = "exists" <=> args.keep)

\* C14: with a layer name and a function update, update_function_code is
\* issued only after the primary artifact's upload; the update step does not
\* fail of itself; and when the run is done the function has the new code
\* and the resolved layer version (the reused one or the one just
\* published) attached.
C14_UpdateCarriesResolvedLayer ==
    (args.layer_name /\ args.aws_lambda_update) =>
       /\ Called("update_function_code") => Called("upload_lambda")
       /\ run_pc = "lambda_update" => run_error \in {"none", "RemoteApiError"}
       /\ run_pc = "done" =>
             /\ use_layer_version # NoVersion
             /\ lambda_function = [code |-> "new", layers |-> <<use_layer_version.Version>>]

\* the uploads of the layer and the publishes, in the order they were made
LayerCallSeq ==
    LET IsLayerCall(c) == c \in {"upload_layer", "publish_layer_version"}
    IN SelectSeq(api_log, IsLayerCall)

\* C16: when no version of the layer embeds the new fingerprint (the layer
\* may have no version at all), the query and the scan end without an error
\* of their own, the run makes exactly one layer upload and then exactly one
\* publish, and it uses the version number the registry gave.
C16_PublishOnceWhenNoMatch ==
    (args.layer_name /\ layer_sha # None /\ Matching(available_versions, layer_sha) = {}) =>
       /\ run_pc \in {"get_lambda_layer", "find_duplicate"} =>
             run_error \in {"none", "RemoteApiError"}
       /\ run_pc \in {"s3_upload", "lambda_update", "done"} =>
             /\ LayerCallSeq = <<"upload_layer", "publish_layer_version">>
             /\ use_layer_version.Version = registry[Len(registry)].Version

(***************************************************************************)
(* Properties of install_to_dir                                            *)
(***************************************************************************)
\* the project root the i-th installer invocation was made for
PipRoot(i) == ProjectAt(pip_log[i].packages.parts)

PipCount(p) == Cardinality({i \in 1..Len(pip_log) : PipRoot(i) = p})

\* the siblings the manifest of p declares
Declared(p) == manifest[p].local_dependency

RECURSIVE ReachFrom(_, _)
ReachFrom(seen, n) ==
    IF n = 0 THEN seen
    ELSE ReachFrom(seen \cup UNION {Declared(q) : q \in seen}, n - 1)

\* p and every project p reaches through declared siblings
Reach(p) == ReachFrom({p}, Cardinality(Projects))

\* C1: one top-level install_to_dir call invokes invoke_pip_install at most
\* once for each distinct resolved project root.
C1_AtMostOncePerRoot == \A p \in Projects : PipCount(p) <= 1

\* C7: with transitive installation the installer is invoked for a root only
\* after it was invoked for every sibling the root declares; a top-level
\* project declaring one sibling that declares none gives exactly two
\* invocations, the sibling first and the top-level project second.
C7_SiblingsBeforeRoot ==
    /\ \A i \in 1..Len(pip_log) :
          pip_log[i].install_dependencies =>
             \A s \in Declared(PipRoot(i)) : \E j \in 1..(i - 1) : PipRoot(j) = s
    /\ ( /\ install_result = "returned"
         /\ pip_log[Len(pip_log)].install_dependencies
         /\ Declared("A") = {"B"}
         /\ Declared("B") = {} )
       => /\ Len(pip_log) = 2
          /\ PipRoot(1) = "B"
          /\ PipRoot(2) = "A"

C7_Witness ==
    /\ install_result = "returned"
    /\ Declared("A") = {"B"}
    /\ Declared("B") = {}
    /\ Len(pip_log) = 2
    /\ pip_log[2].install_dependencies

\* C9: a missing or unparsable manifest of a reached root ends the whole
\* top-level install in an error; the installer is never invoked for that
\* root nor for a project that depends on it, the top-level root included,
\* and none of them is recorded in the installed set.
C9_ManifestErrorAborts ==
    /\ \A i \in 1..Len(pip_log) :
          /\ manifest[PipRoot(i)].status # "missing"
          /\ pip_log[i].install_dependencies =>
                \A s \in Reach(PipRoot(i)) : manifest[s].status # "missing"
    /\ \A x \in local_deps_already_installed :
          \E i \in 1..Len(pip_log) : pip_log[i].packages = x
    /\ install_error_dir # <<>> =>
          /\ install_result = "ValueError"
          /\ stack = <<>>
          /\ manifest[ProjectAt(install_error_dir)].status = "missing"
          /\ \A i \in 1..Len(pip_log) : PipRoot(i) \notin {"A", ProjectAt(install_error_dir)}
          /\ \A x \in local_deps_already_installed :
                ProjectAt(x.parts) \notin {"A", ProjectAt(install_error_dir)}
    /\ install_result \in {"returned", "CalledProcessError"} =>
          manifest[PipRoot(Len(pip_log))].status # "missing"

C9_Witness ==
    /\ install_result = "ValueError"
    /\ Len(install_error_dir) > Len(TopDir)
    /\ Len(pip_log) >= 1

\* C10: install_to_dir terminates for every finite set of projects, cycles
\* of declared siblings included, because a root already recorded in the
\* installed set is not recursed into again: no root is entered while a call
\* for it is still open, and the recursion never runs into the interpreter's
\* limit.
C10_TerminatesOnCycles ==
    /\ install_result # "RecursionError"
    /\ \A i, j \in 1..Len(stack) :
          ProjectAt(stack[i].local_dep_dir.parts) = ProjectAt(stack[j].local_dep_dir.parts)
             => i = j

\* the i-th installer invocation is the one of the top-level call
TopLevelInvocation(i) == pip_log[i].packages = Str(Path(TopDir))

\* C17 as stated: with transitive installation, third-party packages are
\* requested only in the invocation for the top-level root; every invocation
\* for a recursively reached sibling is made with --no-deps.
C17_OnlyTopLevelRequestsThirdParty ==
    \A i \in 1..Len(pip_log) : ~TopLevelInvocation(i) => ~pip_log[i].install_dependencies

\* C17, amended: every invocation for a recursively reached sibling requests
\* third-party packages, as the top-level one does; --no-deps is given only by
\* a top-level call with transitive installation off, which is then the
\* only invocation.
C17_SiblingsRequestThirdParty ==
    \A i \in 1..Len(pip_log) :
       /\ ~TopLevelInvocation(i) => pip_log[i].install_dependencies
       /\ ~pip_log[i].install_dependencies => (i = 1 /\ Len(pip_log) = 1 /\ TopLevelInvocation(i))

C17_Witness ==
    /\ install_result = "returned"
    /\ Len(pip_log) = 2
    /\ ~TopLevelInvocation(1) /\ pip_log[1].install_dependencies /\ pip_log[1].ok
    /\ TopLevelInvocation(2) /\ pip_log[2].install_dependencies

(***************************************************************************)
(* Properties of the two artifacts (SpecBuild)                             *)
(***************************************************************************)
NamesOf(namelist) == IF namelist = NotBuilt THEN {} ELSE {namelist[i] : i \in 1..Len(namelist)}

\* C11: every exclusion pattern of the run (built-in, declared by a manifest
\* read during installation, or given with --omit) is applied to every
\* artifact: no member of the primary artifact and no member of the layer
\* artifact has a path that one of these patterns matches.
C11_EveryPatternAppliedToEveryArtifact ==
    build_pc = "done" =>
       \A r \in zip_omit :
          \A m \in NamesOf(lambda_zip_namelist) \cup NamesOf(layer_zip_namelist) :
             ~FoundAnywhere(r, m)

\* C18: the primary artifact is built before the layer artifact; every
\* member name of the layer artifact begins with 'python/' and is relative;
\* and for no member m of the primary artifact is 'python/' + m a member of
\* the layer artifact.
C18_LayerBelowPythonAndDisjoint ==
    layer_zip_namelist # NotBuilt =>
       /\ lambda_zip_namelist # NotBuilt
       /\ \A n \in NamesOf(layer_zip_namelist) :
             /\ Len(n) > Len(PythonPrefix)
             /\ SubSeq(n, 1, Len(PythonPrefix)) = PythonPrefix
             /\ n[1] # "/"
       /\ \A m \in NamesOf(lambda_zip_namelist) :
             PythonPrefix \o m \notin NamesOf(layer_zip_namelist)

C18_Witness ==
    /\ build_pc = "done"
    /\ <<"A">> \in NamesOf(lambda_zip_namelist)
    /\ PythonPrefix \o <<"A">> \in FilesOf(tmp_tree)
    /\ PythonPrefix \o <<"B">> \in NamesOf(layer_zip_namelist)

\* C19: at every point of a run every root recorded in the installed set has
\* been installed into the staging directory that is being populated.
C19_InstalledSetIsOfCurrentStagingDir ==
    dst_dir # NoDir =>
       \A root \in local_deps_already_installed :
          \E i \in 1..Len(pip_log) :
             /\ pip_log[i].ok
             /\ pip_log[i].packages = root
             /\ pip_log[i].target_dir = dst_dir

====
